---------------------------- MODULE Spec2Model ----------------------------
(***************************************************************************)
(* Acquisition/concurrency engine of the PLC gateway: the bounded queues  *)
(* (DataQueue.js), the serialized register channel (PlcHelper: withPlcLock,*)
(* connectPLC, getPlcData, sendDefectTrigger) and the poller, process      *)
(* tracker and defect funnel of the routes module (readLoop,               *)
(* handleProcessLogic, handleDetectResult, startPlcPolling).               *)
(*                                                                         *)
(* One tuple of variables carries the whole program state.  Four           *)
(* specifications drive it:                                                *)
(*   SpecQueue   - the DataQueue operations alone;                         *)
(*   SpecPoller  - readLoop ticks, the value returned by getPlcData drawn  *)
(*                 from the frames the registers can hold, or null;        *)
(*   SpecChannel - concurrent getPlcData / sendDefectTrigger calls through *)
(*                 withPlcLock, hardware calls failing at will;            *)
(*   Spec        - poller, defect intake, defect worker and channel        *)
(*                 together.                                               *)
(***************************************************************************)
EXTENDS Integers, Sequences, FiniteSets, TLC

VARIABLES
    plcDataQueue,       \* DataQueue.js: let plcDataQueue = []
    dbWriteQueue,       \* DataQueue.js: let dbWriteQueue = []
    latestPlcData,      \* routes: let latestPlcData = null
    lastSavedData,      \* routes: let lastSavedData = null
    lastProcessStart,   \* routes: let lastProcessStart = 0
    currentProcess,     \* routes: let currentProcess = null
    defectQueue,        \* routes: let defectQueue = []
    isProcessingDefect, \* routes: let isProcessingDefect = false
    isConnected,        \* PlcHelper: let isConnected = false
    clientOpen,         \* modbus client: client.isOpen
    plcLock,            \* PlcHelper: the promise chain, as the calls not yet settled, oldest first
    calls,              \* per caller: the channel call it has outstanding
    d111,               \* the PLC's defect register D111
    worker,             \* the defect processor's run: where it is and the event it holds
    testEnd,            \* POST /test/process-end awaiting insertPlcData: its summary, or Null
    store,              \* documents handed to insertPlcData
    writerRuns,         \* the writer interval's callbacks awaiting insertPlcData: their records
    defectTimers,       \* event-driven variant: pending setTimeout(processDefectQueue, 100) callbacks
    hist                \* history (ghost) record: logs and counters the properties read

vars == <<plcDataQueue, dbWriteQueue, latestPlcData, lastSavedData, lastProcessStart,
          currentProcess, defectQueue, isProcessingDefect, isConnected, clientOpen,
          plcLock, calls, d111, worker, testEnd, store, writerRuns, defectTimers, hist>>

queueVars == <<plcDataQueue, dbWriteQueue>>
routeVars == <<latestPlcData, lastSavedData, lastProcessStart, currentProcess,
               defectQueue, isProcessingDefect, worker, testEnd>>
chanVars  == <<isConnected, clientOpen, plcLock, calls, d111>>

(***************************************************************************)
(* Bounds of the model.                                                    *)
(***************************************************************************)
\* Capacity of both queues.  The source sets 100; the model scales it down.
MAX_QUEUE_SIZE == 2
\* Pushes per queue in SpecQueue.
MaxPushes == 4
\* External events in Spec: poll ticks fired, defect events arrived and
\* requests to the test endpoints, together.
MaxEvents == 4

\* JavaScript null.
Null == [isNull |-> TRUE]

\* Who can have a channel call outstanding: two runs of readLoop (a tick can
\* fire while the read of the tick before is still pending) and the defect
\* processor.
PollCallers == {"poll1", "poll2"}
Callers == PollCallers \cup {"worker"}

\* GET /test/connection calls connectPLC itself, not through withPlcLock.
TestCaller == "test"
AllCallers == Callers \cup {TestCaller}

\* A caller with no call outstanding.
IdleCall == [op |-> "none", pc |-> "idle", attempt |-> 0, connAttempt |-> 0]

\* The defect processor between runs.
IdleWorker == [pc |-> "idle", event |-> 0, doc |-> Null]

Last(s) == s[Len(s)]

\* The last n elements of s (all of s when it is shorter).
LastN(s, n) == IF Len(s) <= n THEN s ELSE SubSeq(s, Len(s) - n + 1, Len(s))


(***************************************************************************)
(* DataQueue.js                                                            *)
(***************************************************************************)
\* plcDataQueue.length >= MAX_QUEUE_SIZE: shift() the oldest, then push the new
\* entry.  The entry's timestamp (Date.now()) is not modelled.
PushToPlcQueueDropsNewest(q, data) ==
    IF Len(q) >= MAX_QUEUE_SIZE
    THEN q
    ELSE Append(q, [type |-> "telemetry", data |-> data])

PushToPlcQueue(q, data) ==
    LET kept == IF Len(q) >= MAX_QUEUE_SIZE THEN Tail(q) ELSE q
    IN  Append(kept, [type |-> "telemetry", data |-> data])

\* pushToDbQueue without its "if (length >= MAX_QUEUE_SIZE) shift()".
PushToDbQueueNoEvict(q, defectData) ==
    Append(q, [type      |-> IF defectData.type = "" THEN "defect" ELSE defectData.type,
               data      |-> defectData,
               attempts  |-> 0,
               lastError |-> Null])

\* defectData.type || 'defect': a payload with no type has type "".
PushToDbQueue(q, defectData) ==
    LET kept == IF Len(q) >= MAX_QUEUE_SIZE THEN Tail(q) ELSE q
    IN  Append(kept, [type      |-> IF defectData.type = "" THEN "defect" ELSE defectData.type,
                      data      |-> defectData,
                      attempts  |-> 0,
                      lastError |-> Null])

\* queue.shift() || null: the record returned and the queue left.
PopFromQueue(q) ==
    IF q = <<>> THEN [record |-> Null, rest |-> q]
                ELSE [record |-> Head(q), rest |-> Tail(q)]

PopFromPlcQueue(q) == PopFromQueue(q)
PopFromDbQueue(q) == PopFromQueue(q)

\* The payloads a queue holds, oldest first.
Payloads(q) == [i \in 1..Len(q) |-> q[i].data]

(***************************************************************************)
(* The history record: what the properties read and the program does not.  *)
(***************************************************************************)
HistInit ==
    [pushedPlc |-> <<>>,    \* payloads pushed to plcDataQueue, in order (SpecQueue)
     pushedDb  |-> <<>>,    \* payloads pushed to dbWriteQueue, in order
     popsPlc   |-> 0,       \* pops of plcDataQueue
     popsDb    |-> 0,       \* pops of dbWriteQueue
     writes    |-> 0,       \* insertPlcData calls the database writer made
     lastWrite |-> [record |-> Null, ok |-> TRUE],
                            \* the last of them: the record popped, and whether it was stored
     ticks     |-> 0,       \* readLoop runs that got their getPlcData result
     lastPoll  |-> "none",  \* what the last of them got: "frame" or "null"
     flagLog   |-> <<>>,    \* processStart of every frame fed to handleProcessLogic
     summaries |-> <<>>,    \* the summaries handleProcessLogic emitted
     nProcesses |-> 0,      \* processes opened so far (the next uuid)
     openFrame |-> Null,    \* the frame of the last 0 -> 1 transition of the observed flag
     openProcess |-> Null,  \* the process opened on that frame
     expected  |-> <<>>,    \* per 1 -> 0 transition of the observed flag: the summary
                            \* computed from the two edge frames
     prevFrame |-> Null,    \* the frame polled before the latest one
     runLen    |-> 0,       \* length of the current run of identical polled frames
     runPushes |-> 0,       \* telemetry entries pushed for the current run of identical frames
     lastEnq   |-> Null,    \* the frame last pushed to plcDataQueue
     dupPush   |-> FALSE,   \* a frame was pushed that equalled lastEnq in the seven fields
     tried     |-> [c \in Callers |-> 0],  \* attempts the caller's call has begun
     failed    |-> [c \in Callers |-> 0],  \* attempts of it that failed
     connThrows |-> [c \in Callers |-> 0], \* of those, the ones in which connectPLC threw
     lastReturn |-> [op |-> "none", kind |-> "none", tried |-> 0, failed |-> 0,
                     connThrows |-> 0],   \* the call that settled last (SpecChannel)
     conn      |-> [c \in Callers |-> [tries |-> 0, fails |-> 0, wasOpen |-> FALSE]],
                            \* the connectPLC call the caller's attempt is in: the connectTCP
                            \* calls it issued, those that failed, and whether
                            \* isConnected && client.isOpen held when it was entered
     lastConn  |-> [outcome |-> "none", tries |-> 0, fails |-> 0, wasOpen |-> FALSE],
                            \* the connectPLC call that ended last: "returned" after a
                            \* connectTCP, "skipped" without one, or "threw"
     waiting   |-> <<>>,    \* the callers whose call is submitted and whose fn has not
                            \* started, in the order of submission (SpecChannel)
     nEvents   |-> 0,       \* poll ticks, defect events and test requests so far (Spec)
     nDefects  |-> 0,       \* defect events arrived (the next defectId)
     arrivedIdle |-> {},    \* the events that arrived while no process was open
     dequeuedIn |-> 0,      \* processId of the process that was open when the event the
                            \* defect processor is working on was shifted (0: no event)
     discarded |-> {},      \* the events the defect processor shifted and dropped at
                            \* its own check
     inFlight  |-> {},      \* the events shifted from defectQueue whose run of the
                            \* defect processor has not ended
     pulseOpen |-> {},      \* the events with a D111 write issued whose
                            \* sendDefectTrigger call has not returned
     pulseAsserted |-> {},  \* the events whose writeRegister(111, 1) completed
     pulseDone |-> {},      \* the events whose writeRegister(111, 0) completed
     pulseFailed |-> {}]    \* the events with a D111 write issued whose
                            \* sendDefectTrigger call gave up and returned false

\* The state right after the modules are loaded.
ProgramInit ==
    /\ plcDataQueue = <<>>
    /\ dbWriteQueue = <<>>
    /\ latestPlcData = Null
    /\ lastSavedData = Null
    /\ lastProcessStart = 0
    /\ currentProcess = Null
    /\ defectQueue = <<>>
    /\ isProcessingDefect = FALSE
    /\ isConnected = FALSE
    /\ clientOpen = FALSE
    /\ plcLock = <<>>
    /\ calls = [c \in AllCallers |-> IdleCall]
    /\ d111 = 0
    /\ worker = IdleWorker
    /\ testEnd = Null
    /\ store = <<>>
    /\ writerRuns = <<>>
    /\ defectTimers = 0
    /\ hist = HistInit

(***************************************************************************)
(* SpecQueue: the DataQueue operations, called in any order.               *)
(***************************************************************************)
\* Payload types a caller passes to pushToDbQueue ("" = no type field).
DbPayloadTypes == {"", "process_summary"}

QPushPlc ==
    /\ Len(hist.pushedPlc) < MaxPushes
    /\ LET data == [type |-> "telemetry", seq |-> Len(hist.pushedPlc) + 1]
       IN  /\ plcDataQueue' = PushToPlcQueue(plcDataQueue, data)
           /\ hist' = [hist EXCEPT !.pushedPlc = Append(@, data)]
    /\ UNCHANGED <<dbWriteQueue, routeVars, chanVars, store, writerRuns, defectTimers>>

QPushDb ==
    /\ Len(hist.pushedDb) < MaxPushes
    /\ \E t \in DbPayloadTypes :
         LET data == [type |-> t, seq |-> Len(hist.pushedDb) + 1]
         IN  /\ dbWriteQueue' = PushToDbQueue(dbWriteQueue, data)
             /\ hist' = [hist EXCEPT !.pushedDb = Append(@, data)]
    /\ UNCHANGED <<plcDataQueue, routeVars, chanVars, store, writerRuns, defectTimers>>

QPopPlc ==
    /\ plcDataQueue' = PopFromPlcQueue(plcDataQueue).rest
    /\ hist' = [hist EXCEPT !.popsPlc = IF @ < MaxPushes THEN @ + 1 ELSE @]
    /\ UNCHANGED <<dbWriteQueue, routeVars, chanVars, store, writerRuns, defectTimers>>

QPopDb ==
    /\ dbWriteQueue' = PopFromDbQueue(dbWriteQueue).rest
    /\ hist' = [hist EXCEPT !.popsDb = IF @ < MaxPushes THEN @ + 1 ELSE @]
    /\ UNCHANGED <<plcDataQueue, routeVars, chanVars, store, writerRuns, defectTimers>>

NextQueue == QPushPlc \/ QPushDb \/ QPopPlc \/ QPopDb

SpecQueue == ProgramInit /\ [][NextQueue]_vars

(***************************************************************************)
(* C2: after M > MAX_QUEUE_SIZE pushes and no pops, each queue holds        *)
(* exactly the last MAX_QUEUE_SIZE pushed payloads, in push order.          *)
(***************************************************************************)
C2_QueueHoldsLastK ==
    /\ (hist.popsPlc = 0 /\ Len(hist.pushedPlc) > MAX_QUEUE_SIZE)
          => Payloads(plcDataQueue) = LastN(hist.pushedPlc, MAX_QUEUE_SIZE)
    /\ (hist.popsDb = 0 /\ Len(hist.pushedDb) > MAX_QUEUE_SIZE)
          => Payloads(dbWriteQueue) = LastN(hist.pushedDb, MAX_QUEUE_SIZE)

C2_Witness ==
    /\ hist.popsPlc = 0 /\ Len(hist.pushedPlc) = MAX_QUEUE_SIZE + 2
    /\ hist.popsDb = 0 /\ Len(hist.pushedDb) = MAX_QUEUE_SIZE + 2
    /\ Len(plcDataQueue) = MAX_QUEUE_SIZE
    /\ Len(dbWriteQueue) = MAX_QUEUE_SIZE

\* What a push must leave of queue q when `data` was pushed and q2 is the
\* queue after it: the new payload last, and before it all of q, or all of q
\* but its oldest entry when q was full.
PushedDropOldest(q, q2, data) ==
    /\ q2 # <<>>
    /\ Last(q2).data = data
    /\ Payloads(SubSeq(q2, 1, Len(q2) - 1))
          = Payloads(IF Len(q) >= MAX_QUEUE_SIZE THEN Tail(q) ELSE q)

(***************************************************************************)
(* C11: after any sequence of pushes and pops (pops as rare as one likes,   *)
(* or none) neither queue is longer than MAX_QUEUE_SIZE, and every push     *)
(* takes effect: the new entry is appended, after the oldest entry was      *)
(* evicted when the queue was full.                                         *)
(***************************************************************************)
C11_BoundedAndPushNeverFails ==
    /\ [](Len(plcDataQueue) <= MAX_QUEUE_SIZE /\ Len(dbWriteQueue) <= MAX_QUEUE_SIZE)
    /\ [][ /\ hist'.pushedPlc # hist.pushedPlc
               => PushedDropOldest(plcDataQueue, plcDataQueue', Last(hist'.pushedPlc))
           /\ hist'.pushedDb # hist.pushedDb
               => PushedDropOldest(dbWriteQueue, dbWriteQueue', Last(hist'.pushedDb)) ]_vars

\* C11 witness: both queues are full after more pushes than they hold, the
\* telemetry queue with a pop in between and the other with no pop at all.
C11_Witness ==
    /\ Len(hist.pushedPlc) = MaxPushes /\ hist.popsPlc = 1
    /\ Len(plcDataQueue) = MAX_QUEUE_SIZE
    /\ Len(hist.pushedDb) = MaxPushes /\ hist.popsDb = 0
    /\ Len(dbWriteQueue) = MAX_QUEUE_SIZE


(***************************************************************************)
(* Routes module: change check, process tracker, poller.                   *)
(***************************************************************************)
\* Poll results processed in SpecPoller.
MaxTicks == 3

\* Values the two counters take (D101 totalProduction, D103 fabricLength).
Counters == {0, 1}

\* The frames getPlcData builds from the registers.  machineStatus (a string
\* derived from machineStatusCode) and timestamp are not modelled.
Frame(status, prod, alarm, len, start, running, defect) ==
    [machineStatusCode |-> status, totalProduction |-> prod, alarmCode |-> alarm,
     fabricLength |-> len, processStart |-> start, machineRunning |-> running,
     defectRegister |-> defect]

\* Frames of SpecPoller: every combination of the lifecycle flag and the two
\* counters on a running machine, and one frame for each other field changed.
PollFrames ==
    { Frame(1, p, 0, l, s, 1, 0) : p \in Counters, l \in Counters, s \in {0, 1} }
    \cup { Frame(3, 0, 0, 0, 0, 1, 0), Frame(1, 0, 7, 0, 0, 1, 0),
           Frame(1, 0, 0, 0, 0, 0, 0), Frame(1, 0, 0, 0, 0, 1, 1) }

\* The seven fields hasImportantChange compares.
SameSeven(a, b) ==
    /\ a.machineStatusCode = b.machineStatusCode
    /\ a.totalProduction = b.totalProduction
    /\ a.fabricLength = b.fabricLength
    /\ a.alarmCode = b.alarmCode
    /\ a.processStart = b.processStart
    /\ a.machineRunning = b.machineRunning
    /\ a.defectRegister = b.defectRegister

HasImportantChangeAlways(data) == TRUE

\* hasImportantChange without its comparison of defectRegister.
HasImportantChangeSixFields(data) ==
    IF lastSavedData = Null THEN TRUE
    ELSE \/ data.machineStatusCode # lastSavedData.machineStatusCode
         \/ data.totalProduction # lastSavedData.totalProduction
         \/ data.fabricLength # lastSavedData.fabricLength
         \/ data.alarmCode # lastSavedData.alarmCode
         \/ data.processStart # lastSavedData.processStart
         \/ data.machineRunning # lastSavedData.machineRunning

HasImportantChange(data) ==
    IF lastSavedData = Null THEN TRUE
    ELSE \/ data.machineStatusCode # lastSavedData.machineStatusCode
         \/ data.totalProduction # lastSavedData.totalProduction
         \/ data.fabricLength # lastSavedData.fabricLength
         \/ data.alarmCode # lastSavedData.alarmCode
         \/ data.processStart # lastSavedData.processStart
         \/ data.machineRunning # lastSavedData.machineRunning
         \/ data.defectRegister # lastSavedData.defectRegister

\* No process id (JavaScript null in currentProcess?.processId || null).
NoId == 0

\* A summary carrying the end frame's counters instead of the differences.
ProcessSummaryAbsolute(process, data) ==
    [type |-> "process_summary",
     processId |-> process.processId,
     textileId |-> process.textileId,
     production |-> data.totalProduction,
     fabricProcessed |-> data.fabricLength]

\* The summary of `process` ended by frame `data`.  startTime, endTime and
\* durationMinutes are not modelled.
ProcessSummary(process, data) ==
    [type |-> "process_summary",
     processId |-> process.processId,
     textileId |-> process.textileId,
     production |-> data.totalProduction - process.startProduction,
     fabricProcessed |-> data.fabricLength - process.startLength]

\* handleProcessLogic with the closing "lastProcessStart = data.processStart"
\* left out.
HandleProcessLogicKeepsFlag(data) ==
    LET started == IF data.processStart = 1 /\ lastProcessStart = 0
                   THEN [processId |-> hist.nProcesses + 1, textileId |-> hist.nProcesses + 1,
                         startProduction |-> data.totalProduction,
                         startLength |-> data.fabricLength]
                   ELSE currentProcess
    IN  [currentProcess |-> started, lastProcessStart |-> lastProcessStart,
         dbWriteQueue |-> dbWriteQueue, summary |-> Null,
         opened |-> (data.processStart = 1 /\ lastProcessStart = 0)]

\* handleProcessLogic opening a process on every frame whose processStart is
\* 1, whatever lastProcessStart.
HandleProcessLogicOpensOnLevel(data) ==
    LET opens   == data.processStart = 1
        started == IF opens
                   THEN [processId |-> hist.nProcesses + 1, textileId |-> hist.nProcesses + 1,
                         startProduction |-> data.totalProduction,
                         startLength |-> data.fabricLength]
                   ELSE currentProcess
        ends    == data.processStart = 0 /\ lastProcessStart = 1 /\ started # Null
        summary == IF ends THEN ProcessSummary(started, data) ELSE Null
    IN  [currentProcess |-> IF ends THEN Null ELSE started,
         lastProcessStart |-> data.processStart,
         dbWriteQueue |-> IF ends THEN PushToDbQueue(dbWriteQueue, summary) ELSE dbWriteQueue,
         summary |-> summary,
         opened |-> opens]

\* handleProcessLogic(data): the values it leaves, the summary it pushed (or
\* Null) and whether it opened a process.  processId is a fresh uuid and
\* textileId is derived from the wall clock: both are the process's number
\* here.  startTime, endTime and durationMinutes are not modelled.
HandleProcessLogic(data) ==
    LET opens   == data.processStart = 1 /\ lastProcessStart = 0
        started == IF opens
                   THEN [processId |-> hist.nProcesses + 1, textileId |-> hist.nProcesses + 1,
                         startProduction |-> data.totalProduction,
                         startLength |-> data.fabricLength]
                   ELSE currentProcess
        ends    == data.processStart = 0 /\ lastProcessStart = 1 /\ started # Null
        summary == IF ends THEN ProcessSummary(started, data) ELSE Null
    IN  [currentProcess |-> IF ends THEN Null ELSE started,
         lastProcessStart |-> data.processStart,
         dbWriteQueue |-> IF ends THEN PushToDbQueue(dbWriteQueue, summary) ELSE dbWriteQueue,
         summary |-> summary,
         opened |-> opens]

\* What readLoop leaves when nothing changes.
RouteUnchanged ==
    [latestPlcData |-> latestPlcData, lastSavedData |-> lastSavedData,
     lastProcessStart |-> lastProcessStart, currentProcess |-> currentProcess,
     plcDataQueue |-> plcDataQueue, dbWriteQueue |-> dbWriteQueue,
     summary |-> Null, opened |-> FALSE, pushed |-> FALSE]

\* The telemetry entry readLoop queues for a frame.
TelemetryEntry(data, process) ==
    [type |-> "telemetry",
     processId |-> IF process = Null THEN NoId ELSE process.processId,
     textileId |-> IF process = Null THEN NoId ELSE process.textileId,
     frame |-> data]

\* readLoop with the "if (!data) return" left out: latestPlcData = data runs,
\* then handleProcessLogic(null) throws and the catch ends the tick.
ReadLoopNoNullCheck(data) ==
    IF data = Null
    THEN [RouteUnchanged EXCEPT !.latestPlcData = Null]
    ELSE LET hp == HandleProcessLogic(data)
             push == HasImportantChange(data)
         IN  [latestPlcData |-> data,
              lastSavedData |-> IF push THEN data ELSE lastSavedData,
              lastProcessStart |-> hp.lastProcessStart,
              currentProcess |-> hp.currentProcess,
              plcDataQueue |-> IF push
                               THEN PushToPlcQueue(plcDataQueue,
                                                   TelemetryEntry(data, hp.currentProcess))
                               ELSE plcDataQueue,
              dbWriteQueue |-> hp.dbWriteQueue,
              summary |-> hp.summary, opened |-> hp.opened, pushed |-> push]

\* readLoop queueing the frame before handleProcessLogic has seen it: the
\* entry carries the process that was open before the frame.
ReadLoopTagsBeforeTracker(data) ==
    IF data = Null
    THEN RouteUnchanged
    ELSE LET hp == HandleProcessLogic(data)
             push == HasImportantChange(data)
         IN  [latestPlcData |-> data,
              lastSavedData |-> IF push THEN data ELSE lastSavedData,
              lastProcessStart |-> hp.lastProcessStart,
              currentProcess |-> hp.currentProcess,
              plcDataQueue |-> IF push
                               THEN PushToPlcQueue(plcDataQueue,
                                                   TelemetryEntry(data, currentProcess))
                               ELSE plcDataQueue,
              dbWriteQueue |-> hp.dbWriteQueue,
              summary |-> hp.summary, opened |-> hp.opened, pushed |-> push]

\* readLoop, from the value getPlcData returned (data) to its end: the values
\* it leaves, and what it did (summary pushed, process opened, frame queued).
ReadLoop(data) ==
    IF data = Null
    THEN RouteUnchanged
    ELSE LET hp == HandleProcessLogic(data)
             push == HasImportantChange(data)
         IN  [latestPlcData |-> data,
              lastSavedData |-> IF push THEN data ELSE lastSavedData,
              lastProcessStart |-> hp.lastProcessStart,
              currentProcess |-> hp.currentProcess,
              plcDataQueue |-> IF push
                               THEN PushToPlcQueue(plcDataQueue,
                                                   TelemetryEntry(data, hp.currentProcess))
                               ELSE plcDataQueue,
              dbWriteQueue |-> hp.dbWriteQueue,
              summary |-> hp.summary, opened |-> hp.opened, pushed |-> push]

\* The flag observed before the next frame: 0 before the first frame.
PrevFlag == IF hist.flagLog = <<>> THEN 0 ELSE Last(hist.flagLog)

\* The summary the two edge frames determine: the differences of the
\* counters between frame `open` and frame `data`, and the ids of `process`.
SummaryOfEdges(process, open, data) ==
    [type |-> "process_summary",
     processId |-> process.processId,
     textileId |-> process.textileId,
     production |-> data.totalProduction - open.totalProduction,
     fabricProcessed |-> data.fabricLength - open.fabricLength]

\* The history record after a readLoop that got `data` and did `r`.
HistAfterPoll(data, r) ==
    IF data = Null
    THEN [hist EXCEPT !.ticks = @ + 1, !.lastPoll = "null"]
    ELSE [hist EXCEPT
            !.openFrame = IF data.processStart = 1 /\ PrevFlag = 0 THEN data ELSE @,
            !.openProcess = IF data.processStart = 1 /\ PrevFlag = 0
                            THEN r.currentProcess ELSE @,
            !.expected = IF data.processStart = 0 /\ PrevFlag = 1
                         THEN Append(@, SummaryOfEdges(hist.openProcess, hist.openFrame, data))
                         ELSE @,
            !.ticks = @ + 1,
            !.lastPoll = "frame",
            !.flagLog = Append(@, data.processStart),
            !.summaries = IF r.summary = Null THEN @ ELSE Append(@, r.summary),
            !.nProcesses = IF r.opened THEN @ + 1 ELSE @,
            !.prevFrame = data,
            !.runLen = (IF hist.prevFrame # Null /\ SameSeven(hist.prevFrame, data)
                        THEN @ ELSE 0) + 1,
            !.runPushes = (IF hist.prevFrame # Null /\ SameSeven(hist.prevFrame, data)
                           THEN @ ELSE 0) + (IF r.pushed THEN 1 ELSE 0),
            !.lastEnq = IF r.pushed THEN data ELSE @,
            !.dupPush = @ \/ (r.pushed /\ hist.lastEnq # Null /\ SameSeven(hist.lastEnq, data))]

\* The route module's and the queues' variables take the values readLoop left.
ApplyReadLoop(r) ==
    /\ latestPlcData' = r.latestPlcData
    /\ lastSavedData' = r.lastSavedData
    /\ lastProcessStart' = r.lastProcessStart
    /\ currentProcess' = r.currentProcess
    /\ plcDataQueue' = r.plcDataQueue
    /\ dbWriteQueue' = r.dbWriteQueue

(***************************************************************************)
(* SpecPoller: the poll interval and the database writer interval.  Every  *)
(* tick's getPlcData returns a frame or null; the ticks' continuations run *)
(* one after the other, in the order the channel served the reads.          *)
(***************************************************************************)
\* setInterval(readLoop, 1500), from getPlcData's return on.
PollTick ==
    /\ hist.ticks < MaxTicks
    /\ \E data \in PollFrames \cup {Null} :
         LET r == ReadLoop(data)
         IN  /\ ApplyReadLoop(r)
             /\ hist' = HistAfterPoll(data, r)
    /\ UNCHANGED <<defectQueue, isProcessingDefect, worker, testEnd, chanVars, store, writerRuns, defectTimers>>

\* The database writer interval: pops one telemetry entry and hands it to
\* insertPlcData, whose failure is caught and logged.
DbWriterTick ==
    /\ LET popped == PopFromPlcQueue(plcDataQueue)
       IN  /\ plcDataQueue' = popped.rest
           /\ \E ok \in BOOLEAN :
                /\ store' = IF popped.record # Null /\ ok
                            THEN Append(store, popped.record.data)
                            ELSE store
                /\ hist' = IF popped.record = Null THEN hist
                           ELSE [hist EXCEPT !.writes = @ + 1,
                                             !.lastWrite = [record |-> popped.record,
                                                            ok |-> ok]]
    /\ UNCHANGED <<dbWriteQueue, routeVars, chanVars, writerRuns, defectTimers>>

NextPoller == PollTick \/ DbWriterTick

SpecPoller == ProgramInit /\ [][NextPoller]_vars

(***************************************************************************)
(* SpecWriter: the poller beside the database writer interval whose        *)
(* insertPlcData calls take time: a callback of the interval stays pending  *)
(* at its await while the interval fires again.                             *)
(***************************************************************************)
\* How an insertPlcData call ends: the document stored, a falsy return, a throw.
InsertOutcomes == {"stored", "false", "throw"}

\* Remove the i-th element of a sequence.
Without(q, i) == SubSeq(q, 1, i - 1) \o SubSeq(q, i + 1, Len(q))

\* The database writer interval fires: popFromPlcQueue, and with a record the
\* callback calls insertPlcData(record.data) and awaits it.
WriterTick ==
    /\ LET popped == PopFromPlcQueue(plcDataQueue)
       IN  /\ plcDataQueue' = popped.rest
           /\ writerRuns' = IF popped.record = Null THEN writerRuns
                             ELSE Append(writerRuns, popped.record.data)
    /\ UNCHANGED <<dbWriteQueue, routeVars, chanVars, store, defectTimers, hist>>

\* One of the pending insertPlcData calls settles; the callback logs and ends.
WriterSettles ==
    /\ \E i \in 1..Len(writerRuns), out \in InsertOutcomes :
         /\ store' = IF out = "stored" THEN Append(store, writerRuns[i]) ELSE store
         /\ writerRuns' = Without(writerRuns, i)
    /\ UNCHANGED <<queueVars, routeVars, chanVars, defectTimers, hist>>

NextWriter == PollTick \/ WriterTick \/ WriterSettles

SpecWriter == ProgramInit /\ [][NextWriter]_vars

(***************************************************************************)
(* C29: the writer interval dequeues at most one entry per tick, and the    *)
(* number of insertPlcData calls outstanding together stays under a bound   *)
(* that does not grow with the time a write takes: however many frames have *)
(* been queued, fewer writes than that are outstanding at once.             *)
(***************************************************************************)
C29_WriterOneAtATime ==
    /\ [][Len(plcDataQueue') >= Len(plcDataQueue) - 1]_vars
    /\ [](Len(writerRuns) < MaxTicks)


\* The 1 -> 0 transitions in a sequence of observed flags, the flag before
\* the first one being 0.
Falls(log) ==
    Cardinality({ i \in 1..Len(log) :
                    log[i] = 0 /\ (IF i = 1 THEN 0 ELSE log[i - 1]) = 1 })

(***************************************************************************)
(* C1: after any sequence of frames fed to handleProcessLogic from the     *)
(* initial state, the process summaries emitted are as many as the 1 -> 0   *)
(* transitions of processStart between consecutive frames; as this holds    *)
(* after every frame, a frame repeating the previous flag emits none.       *)
(***************************************************************************)
C1_OneSummaryPerFallingEdge ==
    Len(hist.summaries) = Falls(hist.flagLog)

C1_Witness ==
    /\ hist.flagLog = <<1, 1, 0>>
    /\ Len(hist.summaries) = 1

(***************************************************************************)
(* C31: a process is opened exactly on a 0 -> 1 transition of the observed  *)
(* processStart, as a new process whose startProduction and startLength are *)
(* the counters of the frame of that transition; on every other frame no    *)
(* process is opened, and a frame with the flag still 1 leaves the open     *)
(* process, its ids and its start values, as it was.                        *)
(***************************************************************************)
C31_OpenedExactlyOnRisingEdge ==
    [][(hist'.ticks # hist.ticks /\ hist'.lastPoll = "frame") =>
          LET data == latestPlcData'
          IN  IF data.processStart = 1 /\ PrevFlag = 0
              THEN /\ hist'.nProcesses = hist.nProcesses + 1
                   /\ currentProcess' =
                         [processId |-> hist'.nProcesses, textileId |-> hist'.nProcesses,
                          startProduction |-> data.totalProduction,
                          startLength |-> data.fabricLength]
              ELSE /\ hist'.nProcesses = hist.nProcesses
                   /\ data.processStart = 1 => currentProcess' = currentProcess]_vars

\* C31 witness: a process opened at counters 0, 0 is still the open one after
\* two more frames with the flag at 1, the counters meanwhile at 1, 1.
C31_Witness ==
    /\ hist.flagLog = <<1, 1, 1>>
    /\ hist.nProcesses = 1
    /\ currentProcess = [processId |-> 1, textileId |-> 1,
                         startProduction |-> 0, startLength |-> 0]
    /\ latestPlcData.totalProduction = 1 /\ latestPlcData.fabricLength = 1

(***************************************************************************)
(* C23: a counter that is lower on the frame closing a process than on the   *)
(* frame that opened it is not turned into a negative delta: no summary      *)
(* emitted has a negative production or fabricProcessed.                     *)
(***************************************************************************)
C23_NoNegativeDelta ==
    \A i \in 1..Len(hist.summaries) :
        /\ hist.summaries[i].production >= 0
        /\ hist.summaries[i].fabricProcessed >= 0

(***************************************************************************)
(* C12: every summary emitted on a 1 -> 0 transition carries production =  *)
(* totalProduction of the frame of that transition minus totalProduction   *)
(* of the frame of the matching 0 -> 1 transition, fabricProcessed = the    *)
(* same difference of fabricLength, and the processId and textileId of the  *)
(* process opened at that 0 -> 1 transition.                                *)
(***************************************************************************)
C12_SummaryIsDifferenceOfEdgeFrames ==
    hist.summaries = hist.expected

\* C12 witness: a process opened at counters 0, 0 and closed at 1, 1 after a
\* frame in between, its summary carrying 1 and 1 and the id of process 1.
C12_Witness ==
    /\ hist.flagLog = <<1, 1, 0>>
    /\ hist.openFrame.totalProduction = 0 /\ hist.openFrame.fabricLength = 0
    /\ hist.summaries = <<[type |-> "process_summary", processId |-> 1, textileId |-> 1,
                           production |-> 1, fabricProcessed |-> 1]>>

\* The entries of a queue.
Entries(q) == { q[i] : i \in 1..Len(q) }

(***************************************************************************)
(* C14: a record whose store write failed is kept for another attempt: it   *)
(* is not dropped on its first failed write.  In this model no record is    *)
(* ever written twice, so every failed write is a first failed write.       *)
(***************************************************************************)
C14_FailedWriteIsRetried ==
    [][ (hist'.writes # hist.writes /\ ~hist'.lastWrite.ok)
          => hist'.lastWrite.record \in Entries(plcDataQueue') \cup Entries(dbWriteQueue') ]_vars

(***************************************************************************)
(* C6: over a run of consecutive polled frames that are identical in the   *)
(* seven compared fields exactly one telemetry entry is pushed, and no      *)
(* frame equal in those fields to the last enqueued frame is ever pushed.   *)
(***************************************************************************)
C6_IdenticalFramesPushedOnce ==
    /\ hist.runLen >= 1 => hist.runPushes = 1
    /\ ~hist.dupPush

C6_Witness ==
    /\ hist.runLen = 2
    /\ hist.runPushes = 1
    /\ hist.lastEnq = hist.prevFrame

(***************************************************************************)
(* C30: a frame that was polled is pushed to plcDataQueue if and only if no *)
(* frame was queued before or it differs from the frame queued last in one  *)
(* of the seven compared fields; when it is pushed lastSavedData becomes    *)
(* the frame and the queue's newest entry holds it, and when it is not      *)
(* pushed lastSavedData is left as it was.                                  *)
(***************************************************************************)
C30_PushedIffChangedSinceLastEnqueued ==
    [][(hist'.ticks # hist.ticks /\ hist'.lastPoll = "frame") =>
          LET data == latestPlcData'
              changed == hist.lastEnq = Null \/ ~SameSeven(hist.lastEnq, data)
          IN  /\ plcDataQueue' # plcDataQueue <=> changed
              /\ changed => /\ lastSavedData' = data
                             /\ Last(plcDataQueue').data.frame = data
              /\ ~changed => lastSavedData' = lastSavedData]_vars

\* C30 witness: three frames were polled, the second equal to the first and
\* not pushed, the third different and pushed.
C30_Witness ==
    /\ Len(hist.flagLog) = 3
    /\ Len(plcDataQueue) = 2
    /\ hist.runLen = 1
    /\ lastSavedData = latestPlcData
    /\ plcDataQueue[1].data.frame # plcDataQueue[2].data.frame
    /\ ~SameSeven(plcDataQueue[1].data.frame, latestPlcData)

(***************************************************************************)
(* C9: a readLoop whose getPlcData returned null leaves latestPlcData,     *)
(* lastSavedData, lastProcessStart, currentProcess and both queues as they *)
(* were.                                                                   *)
(***************************************************************************)
C9_NullTickIsNoOp ==
    [][ (hist'.ticks = hist.ticks + 1 /\ hist'.lastPoll = "null")
          => UNCHANGED <<latestPlcData, lastSavedData, lastProcessStart,
                         currentProcess, plcDataQueue, dbWriteQueue>> ]_vars

C9_Witness ==
    /\ hist.lastPoll = "null"
    /\ latestPlcData # Null
    /\ currentProcess # Null


(***************************************************************************)
(* PlcHelper: withPlcLock, connectPLC, getPlcData, sendDefectTrigger.      *)
(*                                                                         *)
(* A call is "queued" from withPlcLock(fn) until fn starts, then walks its *)
(* retry loop.  A pc names the hardware call the body is awaiting:         *)
(*   "connecting" client.connectTCP       "io"       readHoldingRegisters  *)
(*   "assert"     writeRegister(111, 1)   "deassert" writeRegister(111, 0) *)
(*   "hold"       delay(2000) between the two writes                       *)
(* The retry delays (delay(RETRY_DELAY)) are part of the step that follows *)
(* the failure: nothing but the waiting call can use the link meanwhile.   *)
(***************************************************************************)
MAX_RETRY_ATTEMPTS == 3

\* What a call settles with.
NoResult == [kind |-> "none"]
FrameResult(f) == [kind |-> "frame", frame |-> f]
NullResult == [kind |-> "null"]
TrueResult == [kind |-> "true"]
FalseResult == [kind |-> "false"]
Raised == [kind |-> "raised"]

\* withPlcLock with fn() called at once instead of chained on plcLock.
LockGrantsAtOnce(c) == TRUE

\* A lock that is not a queue: fn of any waiting caller starts once no call
\* is running.
LockGrantsAnyWaiting(c) ==
    \A x \in Callers : calls[x].pc \in {"idle", "queued"}

\* A lock that is a stack: with no call running, fn of the call submitted
\* last starts first.
LockGrantsNewestFirst(c) ==
    /\ plcLock # <<>> /\ Last(plcLock) = c
    /\ \A x \in Callers : calls[x].pc \in {"idle", "queued"}

\* A lock that a failed operation leaves held: once a call has returned null
\* or false, no later fn is started.
LockGrantsUnlessFailed(c) ==
    /\ plcLock # <<>> /\ Head(plcLock) = c
    /\ hist.lastReturn.kind \notin {"null", "false"}

\* withPlcLock: run = plcLock.then(() => fn()) starts fn for caller c once
\* every call submitted before it has settled; plcLock = run.catch(() => {})
\* keeps the chain going after a rejection.  plcLock holds the unsettled
\* calls, oldest first.
LockGrants(c) == plcLock # <<>> /\ Head(plcLock) = c

\* plcLock once caller c's call has settled.
LockWithout(c) == SelectSeq(plcLock, LAMBDA x : x # c)

\* The hardware call an attempt makes once connectPLC has returned.
FirstIo(op) == IF op = "read" THEN "io" ELSE "assert"

\* The loop's next iteration: attempt n enters the try and calls connectPLC,
\* which returns at once when isConnected && client.isOpen and otherwise
\* makes its first connectTCP.
BeginAttempt(call, n, connected, open) ==
    IF connected /\ open
    THEN [call EXCEPT !.attempt = n, !.pc = FirstIo(call.op), !.connAttempt = 0]
    ELSE [call EXCEPT !.attempt = n, !.pc = "connecting", !.connAttempt = 1]

\* The value the loop's exhaustion returns.
Unavailable(op) == IF op = "read" THEN NullResult ELSE FalseResult

\* getPlcData with "await connectPLC()" outside the try: its throw escapes.
ThrowLandsConnectEscapes(op, site) ==
    IF op = "read" /\ site = "connect" THEN "caller" ELSE "catch"

\* Where an exception thrown inside the loop body lands: every await of
\* both getPlcData and sendDefectTrigger is inside the try, so in the catch.
ThrowLands(op, site) == "catch"

\* sendDefectTrigger returning true right after the assert write.
AfterAssertReturn == "return"

\* sendDefectTrigger after writeRegister(111, 1) succeeded: delay(2000), then
\* writeRegister(111, 0).
AfterAssert == "hold"

\* The outcome of one step of a call: the connection flags, D111, the call,
\* and the result when the step settles the call.
Outcome(connected, open, reg, call, result) ==
    [conn |-> connected, open |-> open, reg |-> reg, call |-> call, result |-> result]

\* The retry loop running while attempt <= MAX_RETRY_ATTEMPTS + 1.
AttemptFailedOneTooMany(call, site, connected, open) ==
    LET conn1 == IF open THEN connected ELSE FALSE
    IN  IF call.attempt < MAX_RETRY_ATTEMPTS + 1
        THEN Outcome(conn1, open, d111,
                     BeginAttempt(call, call.attempt + 1, conn1, open), NoResult)
        ELSE Outcome(conn1, open, d111, call, Unavailable(call.op))

\* An attempt of `call` failed at `site`, the socket left `open`: the catch
\* block (isConnected = false when the socket is closed), then the next
\* attempt or the return after the loop.
AttemptFailed(call, site, connected, open) ==
    LET conn1 == IF open THEN connected ELSE FALSE
    IN  IF ThrowLands(call.op, site) = "caller"
        THEN Outcome(connected, open, d111, call, Raised)
        ELSE IF call.attempt < MAX_RETRY_ATTEMPTS
        THEN Outcome(conn1, open, d111,
                     BeginAttempt(call, call.attempt + 1, conn1, open), NoResult)
        ELSE Outcome(conn1, open, d111, call, Unavailable(call.op))

\* fn starts: attempt 1.
StartOutcome(call) ==
    Outcome(isConnected, clientOpen, d111,
            BeginAttempt(call, 1, isConnected, clientOpen), NoResult)

\* connectPLC: connectTCP succeeded (isConnected = true, return).
ConnectOkOutcome(call) ==
    Outcome(TRUE, TRUE, d111, [call EXCEPT !.pc = FirstIo(call.op)], NoResult)

\* connectPLC with its loop running while attempt <= MAX_RETRY_ATTEMPTS + 1.
ConnectFailOutcomeOneTooMany(call) ==
    IF call.connAttempt < MAX_RETRY_ATTEMPTS + 1
    THEN Outcome(isConnected, FALSE, d111,
                 [call EXCEPT !.connAttempt = @ + 1], NoResult)
    ELSE AttemptFailed(call, "connect", FALSE, FALSE)

\* connectPLC: connectTCP failed: the next connection attempt after the
\* delay, or isConnected = false and the throw after the last one.
ConnectFailOutcome(call) ==
    IF call.connAttempt < MAX_RETRY_ATTEMPTS
    THEN Outcome(isConnected, FALSE, d111,
                 [call EXCEPT !.connAttempt = @ + 1], NoResult)
    ELSE AttemptFailed(call, "connect", FALSE, FALSE)

\* getPlcData: readHoldingRegisters returned: the frame is returned.
ReadOkOutcome(call, f) ==
    Outcome(isConnected, clientOpen, d111, call, FrameResult(f))

\* A hardware call failed; the socket is left open (a timeout) or closed.
IoFailOutcome(call, site, open) ==
    AttemptFailed(call, site, isConnected, open)

\* sendDefectTrigger: writeRegister(111, 1) succeeded.
AssertOkOutcome(call) ==
    IF AfterAssert = "hold"
    THEN Outcome(isConnected, clientOpen, 1, [call EXCEPT !.pc = "hold"], NoResult)
    ELSE Outcome(isConnected, clientOpen, 1, call, TrueResult)

\* sendDefectTrigger: writeRegister(111, 0) succeeded: return true.
DeassertOkOutcome(call) ==
    Outcome(isConnected, clientOpen, 0, call, TrueResult)

\* The calls that hold the link: fn has started and the call has not settled.
Running(c) == calls[c].pc \notin {"idle", "queued"}

\* The calls with a hardware call outstanding on the link.
OnWire(c) == calls[c].pc \in {"connecting", "io", "assert", "deassert"}


(***************************************************************************)
(* Routes module: defect intake, defect processor, test endpoints.         *)
(***************************************************************************)
\* fabricLength values the registers hold in Spec.
SysLengths == {0, 1}

\* Frames of Spec: the lifecycle flag and the running flag vary, the length
\* is 0 or, with a process running, 1; defectRegister is what D111 holds when
\* the registers are read.
SysFrames(reg) ==
    { Frame(1, 0, 0, 0, s, r, reg) : s \in {0, 1}, r \in {0, 1} }
    \cup { Frame(1, 0, 0, l, 1, 1, reg) : l \in SysLengths }

\* lengthAtDetection: latestPlcData?.fabricLength || null, null as -1.
NoLength == -1

\* handleDetectResult without its "if (!currentProcess) return".
GateAcceptsWithoutProcess ==
    ~(latestPlcData # Null /\ latestPlcData.machineRunning # 1)

\* handleDetectResult: the event is queued unless one of the two returns is taken.
GateAccepts ==
    /\ currentProcess # Null
    /\ ~(latestPlcData # Null /\ latestPlcData.machineRunning # 1)

\* The defect processor going on with every event it dequeued.
WorkerGateAcceptsAlways == TRUE

\* A processor whose flag is reset on the last line of the try block: a run
\* that ends by an exception leaves it set.
WorkerFinallyInTryOnly(how) == how \in {"throw", "typeerror"}

\* isProcessingDefect once a run of the defect processor has ended: by the
\* gate's return ("rejected"), after insertPlcData returned ("stored",
\* "false") or in the catch block ("throw" from an awaited call, "typeerror"
\* from reading currentProcess.processId of null).  finally: isProcessingDefect = false.
WorkerFinally(how) == FALSE

\* The defect processor's check after it dequeued an event.
WorkerGateAccepts ==
    ~(currentProcess = Null \/ (latestPlcData # Null /\ latestPlcData.machineRunning # 1))

\* The document built with the ids of the process that was open when the
\* event was shifted from defectQueue.
DefectRecordOfDequeueProcess(e) ==
    [type |-> "defect",
     processId |-> hist.dequeuedIn,
     textileId |-> hist.dequeuedIn,
     defectId |-> e,
     lengthAtDetection |-> IF latestPlcData = Null \/ latestPlcData.fabricLength = 0
                           THEN NoLength ELSE latestPlcData.fabricLength]

\* The document the defect processor hands to insertPlcData (count,
\* confidence and timestamp are not modelled).
DefectRecord(e) ==
    [type |-> "defect",
     processId |-> currentProcess.processId,
     textileId |-> currentProcess.textileId,
     defectId |-> e,
     lengthAtDetection |-> IF latestPlcData = Null \/ latestPlcData.fabricLength = 0
                           THEN NoLength ELSE latestPlcData.fabricLength]

\* The history record after a step, with outcome o, of the call the defect
\* processor made for its event: the pulse is open from the first
\* writeRegister(111, 1) issued, done once writeRegister(111, 0) completed,
\* asserted once a writeRegister(111, 1) completed, done once
\* writeRegister(111, 0) completed, and failed when the call returned false
\* after a write was issued.
HistAfterPulseStep(o) ==
    LET e == worker.event
        begun == o.result.kind = "none" /\ o.call.pc = "assert"
        asserted == o.result.kind = "none" /\ o.call.pc = "hold"
        done == o.result.kind = "true" /\ o.reg = 0
        gaveUp == o.result.kind = "false" /\ e \in hist.pulseOpen
    IN  IF done THEN [hist EXCEPT !.pulseOpen = @ \ {e}, !.pulseDone = @ \cup {e}]
        ELSE IF gaveUp THEN [hist EXCEPT !.pulseOpen = @ \ {e}, !.pulseFailed = @ \cup {e}]
        ELSE IF begun THEN [hist EXCEPT !.pulseOpen = @ \cup {e}]
        ELSE IF asserted THEN [hist EXCEPT !.pulseAsserted = @ \cup {e}]
        ELSE hist

\* An insertPlcData call is pending: the defect processor's or the one of
\* POST /test/process-end.
StoreBusy == worker.pc = "insert" \/ testEnd # Null

\* readLoop awaiting the store before it ends, as a loop that inserts the
\* frame itself would.
PollAwaitsStoreAlways == TRUE

\* Whether readLoop awaits a store write: its only await is getPlcData(),
\* the frame goes to DataQueue.pushToPlcQueue.
PollAwaitsStore == FALSE

\* readLoop resumes with what getPlcData settled with (a rejection would land
\* in readLoop's catch).
PollContinues(result) ==
    LET data == IF result.kind = "frame" THEN result.frame ELSE Null
        r == ReadLoop(data)
    IN  /\ PollAwaitsStore => ~StoreBusy
        /\ ApplyReadLoop(r)
        /\ hist' = [hist EXCEPT !.nProcesses = IF r.opened THEN @ + 1 ELSE @]
        /\ UNCHANGED <<defectQueue, isProcessingDefect, worker, testEnd, store, writerRuns, defectTimers>>

\* The defect processor resumes after "await sendDefectTrigger()": it builds
\* the defect document (a TypeError when currentProcess is null by now, which
\* the catch logs) and awaits insertPlcData.
WorkerContinues(o) ==
    /\ IF o.result.kind = "raised" \/ currentProcess = Null
       THEN /\ isProcessingDefect' = WorkerFinally(IF o.result.kind = "raised"
                                                      THEN "throw" ELSE "typeerror")
            /\ worker' = IdleWorker
            /\ hist' = [HistAfterPulseStep(o) EXCEPT !.inFlight = @ \ {worker.event},
                                                     !.dequeuedIn = 0]
       ELSE /\ isProcessingDefect' = isProcessingDefect
            /\ worker' = [worker EXCEPT !.pc = "insert", !.doc = DefectRecord(worker.event)]
            /\ hist' = HistAfterPulseStep(o)
    /\ UNCHANGED <<queueVars, latestPlcData, lastSavedData, lastProcessStart,
                   currentProcess, defectQueue, testEnd, store, writerRuns, defectTimers>>

(***************************************************************************)
(* SpecChannel: getPlcData and sendDefectTrigger called concurrently by    *)
(* the poller's runs and the defect processor; every hardware call can     *)
(* succeed or fail, and the socket can close.  What the callers do with    *)
(* the results is left out: only the call that settled last is recorded.   *)
(***************************************************************************)
\* The operation each caller submits.
OpOf(c) == IF c \in PollCallers THEN "read" ELSE "pulse"

\* getPlcData() / sendDefectTrigger(): withPlcLock appends the call to the chain.
Submitted(c) == [IdleCall EXCEPT !.op = OpOf(c), !.pc = "queued"]

\* The attempt counters after caller c's step with outcome o; `threw` is the
\* site of the failure the step handled, or "".
TriedAfter(c, call, o) ==
    IF o.result.kind = "none" /\ o.call.attempt # call.attempt
    THEN hist.tried[c] + 1 ELSE hist.tried[c]

HistChanStep(c, call, o, threw) ==
    LET tried  == TriedAfter(c, call, o)
        failed == hist.failed[c] + (IF threw # "" THEN 1 ELSE 0)
        conn   == hist.connThrows[c] + (IF threw = "connect" THEN 1 ELSE 0)
    IN  IF o.result.kind = "none"
        THEN [hist EXCEPT !.tried[c] = tried, !.failed[c] = failed, !.connThrows[c] = conn]
        ELSE [hist EXCEPT !.tried[c] = 0, !.failed[c] = 0, !.connThrows[c] = 0,
                          !.lastReturn = [op |-> call.op, kind |-> o.result.kind,
                                          tried |-> tried, failed |-> failed,
                                          connThrows |-> conn]]

\* The history record h with the connectPLC counters brought up to date for
\* caller c's step from `call` with outcome o.  A step from "connecting" is
\* the end of a connectTCP: a success when the same attempt goes on to its
\* register call, a failure otherwise; after a failure connectPLC has thrown
\* when the attempt is over, and has issued the next connectTCP when not.
\* A connectPLC call is entered when fn starts and when the next attempt
\* begins.
HistConnStep(h, c, call, o) ==
    LET cur      == hist.conn[c]
        sameTry  == o.result.kind = "none" /\ o.call.attempt = call.attempt
        inTcp    == call.pc = "connecting"
        okTcp    == inTcp /\ sameTry /\ o.call.pc = FirstIo(call.op)
        failTcp  == inTcp /\ ~okTcp
        threw    == failTcp /\ ~sameTry
        entered  == o.result.kind = "none" /\ ~sameTry
        wasOpen  == o.conn /\ o.open
        skipped  == entered /\ o.call.pc # "connecting"
        none     == [tries |-> 0, fails |-> 0, wasOpen |-> FALSE]
    IN  [h EXCEPT
           !.conn[c] = IF entered
                       THEN [tries |-> IF skipped THEN 0 ELSE 1, fails |-> 0,
                             wasOpen |-> wasOpen]
                       ELSE IF failTcp /\ ~threw
                       THEN [cur EXCEPT !.tries = @ + 1, !.fails = @ + 1]
                       ELSE IF inTcp \/ o.result.kind # "none" THEN none
                       ELSE cur,
           !.lastConn = IF threw
                        THEN [outcome |-> "threw", tries |-> cur.tries,
                              fails |-> cur.fails + 1, wasOpen |-> cur.wasOpen]
                        ELSE IF okTcp
                        THEN [outcome |-> "returned", tries |-> cur.tries,
                              fails |-> cur.fails, wasOpen |-> cur.wasOpen]
                        ELSE IF skipped
                        THEN [outcome |-> "skipped", tries |-> 0, fails |-> 0,
                              wasOpen |-> wasOpen]
                        ELSE @]

\* Caller c's step with outcome o takes effect on the channel.
ChanApply(c, o) ==
    /\ isConnected' = o.conn
    /\ clientOpen' = o.open
    /\ d111' = o.reg
    /\ IF o.result.kind = "none"
       THEN /\ calls' = [calls EXCEPT ![c] = o.call]
            /\ plcLock' = plcLock
       ELSE /\ calls' = [calls EXCEPT ![c] = IdleCall]
            /\ plcLock' = LockWithout(c)

\* In SpecChannel the caller does nothing with the result.
ChStep(c, o, threw) ==
    /\ ChanApply(c, o)
    /\ hist' = [HistConnStep(HistChanStep(c, calls[c], o, threw), c, calls[c], o)
                  EXCEPT !.waiting = IF calls[c].pc = "queued"
                                     THEN SelectSeq(@, LAMBDA x : x # c) ELSE @]
    /\ UNCHANGED <<queueVars, routeVars, store, writerRuns, defectTimers>>

\* In Spec the caller resumes in the step that settles its call.
SysStep(c, o) ==
    /\ ChanApply(c, o)
    /\ IF o.result.kind = "none"
       THEN /\ hist' = IF c = "worker" THEN HistAfterPulseStep(o) ELSE hist
            /\ UNCHANGED <<queueVars, routeVars, store, writerRuns, defectTimers>>
       ELSE IF c = "worker" THEN WorkerContinues(o) ELSE PollContinues(o.result)

Step(c, o, threw, sys) == IF sys THEN SysStep(c, o) ELSE ChStep(c, o, threw)

ChSubmit(c) ==
    /\ calls[c].pc = "idle"
    /\ calls' = [calls EXCEPT ![c] = Submitted(c)]
    /\ plcLock' = Append(plcLock, c)
    /\ hist' = [hist EXCEPT !.waiting = Append(@, c)]
    /\ UNCHANGED <<isConnected, clientOpen, d111, queueVars, routeVars, store, writerRuns, defectTimers>>

Start(c, sys) ==
    /\ calls[c].pc = "queued"
    /\ LockGrants(c)
    /\ Step(c, StartOutcome(calls[c]), "", sys)

ConnectOk(c, sys) ==
    /\ calls[c].pc = "connecting"
    /\ Step(c, ConnectOkOutcome(calls[c]), "", sys)

ConnectFail(c, sys) ==
    /\ calls[c].pc = "connecting"
    /\ Step(c, ConnectFailOutcome(calls[c]),
            IF calls[c].connAttempt < MAX_RETRY_ATTEMPTS THEN "" ELSE "connect", sys)

\* The registers read: any frame in SpecChannel, in Spec a frame showing D111.
ReadOk(c, sys) ==
    /\ calls[c].pc = "io"
    /\ \E f \in (IF sys THEN SysFrames(d111) ELSE PollFrames) :
         Step(c, ReadOkOutcome(calls[c], f), "", sys)

IoFail(c, sys) ==
    /\ calls[c].pc \in {"io", "assert", "deassert"}
    /\ \E open \in {clientOpen, FALSE} :
         Step(c, IoFailOutcome(calls[c], calls[c].pc, open), calls[c].pc, sys)

AssertOk(c, sys) ==
    /\ calls[c].pc = "assert"
    /\ Step(c, AssertOkOutcome(calls[c]), "", sys)

HoldElapsed(c, sys) ==
    /\ calls[c].pc = "hold"
    /\ Step(c, Outcome(isConnected, clientOpen, d111,
                       [calls[c] EXCEPT !.pc = "deassert"], NoResult), "", sys)

DeassertOk(c, sys) ==
    /\ calls[c].pc = "deassert"
    /\ Step(c, DeassertOkOutcome(calls[c]), "", sys)

\* The peer or the network closes the socket.
LinkDown ==
    /\ clientOpen
    /\ clientOpen' = FALSE
    /\ UNCHANGED <<isConnected, plcLock, calls, d111, queueVars, routeVars, store, writerRuns, defectTimers, hist>>

NextChannel ==
    \/ \E c \in Callers : ChSubmit(c)
    \/ \E c \in Callers : Start(c, FALSE)
    \/ \E c \in Callers : ConnectOk(c, FALSE)
    \/ \E c \in Callers : ConnectFail(c, FALSE)
    \/ \E c \in Callers : ReadOk(c, FALSE)
    \/ \E c \in Callers : IoFail(c, FALSE)
    \/ \E c \in Callers : AssertOk(c, FALSE)
    \/ \E c \in Callers : HoldElapsed(c, FALSE)
    \/ \E c \in Callers : DeassertOk(c, FALSE)
    \/ LinkDown

SpecChannel == ProgramInit /\ [][NextChannel]_vars

\* The steps of caller c's call that the event loop or the hardware takes once
\* they are due: fn starting when the lock is granted, and each hardware call
\* returning or timing out.
CallStep(c) ==
    \/ Start(c, FALSE)
    \/ ConnectOk(c, FALSE)
    \/ ConnectFail(c, FALSE)
    \/ ReadOk(c, FALSE)
    \/ IoFail(c, FALSE)
    \/ AssertOk(c, FALSE)
    \/ HoldElapsed(c, FALSE)
    \/ DeassertOk(c, FALSE)

\* SpecChannel in which every hardware call returns or times out and every
\* promise continuation that is due runs.  The lock lets one call run at a
\* time, so one fairness condition covers all callers.
SpecChannelFair ==
    SpecChannel /\ WF_vars(\E c \in Callers : CallStep(c))

(***************************************************************************)
(* SpecLink: SpecChannel and GET /test/connection, whose handler awaits     *)
(* connectPLC() directly.                                                   *)
(***************************************************************************)
\* GET /test/connection: connectPLC() is entered; with isConnected &&
\* client.isOpen it returns at once, otherwise it issues its first connectTCP.
TestConnection ==
    /\ calls[TestCaller].pc = "idle"
    /\ ~(isConnected /\ clientOpen)
    /\ calls' = [calls EXCEPT ![TestCaller] =
                    [op |-> "connect", pc |-> "connecting", attempt |-> 0, connAttempt |-> 1]]
    /\ UNCHANGED <<isConnected, clientOpen, plcLock, d111, queueVars, routeVars, store, writerRuns, defectTimers, hist>>

\* Its connectTCP succeeded: isConnected = true, the handler answers 200.
TestConnectionOk ==
    /\ calls[TestCaller].pc = "connecting"
    /\ isConnected' = TRUE
    /\ clientOpen' = TRUE
    /\ calls' = [calls EXCEPT ![TestCaller] = IdleCall]
    /\ UNCHANGED <<plcLock, d111, queueVars, routeVars, store, writerRuns, defectTimers, hist>>

\* Its connectTCP failed: the next attempt, or after the last one
\* isConnected = false and the throw, which the handler answers with 503.
TestConnectionFail ==
    /\ calls[TestCaller].pc = "connecting"
    /\ clientOpen' = FALSE
    /\ IF calls[TestCaller].connAttempt < MAX_RETRY_ATTEMPTS
       THEN /\ calls' = [calls EXCEPT ![TestCaller].connAttempt = @ + 1]
            /\ isConnected' = isConnected
       ELSE /\ calls' = [calls EXCEPT ![TestCaller] = IdleCall]
            /\ isConnected' = FALSE
    /\ UNCHANGED <<plcLock, d111, queueVars, routeVars, store, writerRuns, defectTimers, hist>>

NextLink ==
    \/ NextChannel
    \/ TestConnection
    \/ TestConnectionOk
    \/ TestConnectionFail

SpecLink == ProgramInit /\ [][NextLink]_vars

(***************************************************************************)
(* C19: no operation on the link (connectTCP, readHoldingRegisters,         *)
(* writeRegister) is outstanding together with another one, whoever issued  *)
(* them, GET /test/connection included.                                     *)
(***************************************************************************)
C19_OneOperationOutstanding ==
    \A c \in AllCallers, d \in AllCallers : OnWire(c) /\ OnWire(d) => c = d

(***************************************************************************)
(* C32: every call submitted to withPlcLock eventually starts and           *)
(* eventually completes, whatever the calls before it returned: a call that *)
(* failed does not keep the lock.                                           *)
(***************************************************************************)
C32_EverySubmittedCallCompletes ==
    \A c \in Callers :
        /\ ((calls[c].pc = "queued") ~> Running(c))
        /\ ((calls[c].pc # "idle") ~> (calls[c].pc = "idle"))

\* A call is running after the call before it returned false, with a third
\* one waiting behind it.
C32_Witness ==
    /\ hist.lastReturn.kind = "false"
    /\ Running("poll1")
    /\ calls["poll2"].pc = "queued"

(***************************************************************************)
(* C40: the telemetry entry queued for a frame is tagged with the process   *)
(* the tracker holds after it has processed that frame: the entry of a      *)
(* frame with a 0 -> 1 edge carries the id of the process opened on it, the *)
(* entry of a frame with a 1 -> 0 edge carries no processId, and both       *)
(* frames are queued.                                                       *)
(***************************************************************************)
C40_EntryTaggedAfterTracker ==
    [][(hist'.ticks # hist.ticks /\ hist'.lastPoll = "frame") =>
          LET data  == latestPlcData'
              entry == Last(plcDataQueue').data
              edge  == data.processStart # lastProcessStart
          IN  /\ edge => plcDataQueue' # plcDataQueue
              /\ plcDataQueue' # plcDataQueue =>
                    /\ entry.frame = data
                    /\ entry.processId = IF currentProcess' = Null THEN NoId
                                         ELSE currentProcess'.processId
              /\ (data.processStart = 1 /\ lastProcessStart = 0) =>
                    /\ entry.processId = hist'.nProcesses
                    /\ entry.processId # NoId
                    /\ currentProcess = Null \/ entry.processId # currentProcess.processId
              /\ (data.processStart = 0 /\ lastProcessStart = 1) =>
                    entry.processId = NoId]_vars

\* The queue holds the entry of a 0 -> 1 frame with the new process's id and
\* after it the entry of the 1 -> 0 frame with none.
C40_Witness ==
    /\ hist.flagLog = <<1, 0>>
    /\ Len(plcDataQueue) = 2
    /\ plcDataQueue[1].data.frame.processStart = 1 /\ plcDataQueue[1].data.processId = 1
    /\ plcDataQueue[2].data.frame.processStart = 0 /\ plcDataQueue[2].data.processId = NoId

(***************************************************************************)
(* C25: the two writes of a pulse take the lock separately: while the pulse *)
(* is between its completed writeRegister(111, 1) and its                   *)
(* writeRegister(111, 0), a read that was submitted and waits next in line  *)
(* can be executed.                                                         *)
(***************************************************************************)
C25_ReadCanRunBetweenWrites ==
    \A c \in PollCallers :
        (/\ calls["worker"].pc = "hold"
         /\ calls[c].pc = "queued"
         /\ \A x \in Callers \ {c, "worker"} : calls[x].pc = "idle")
            => ENABLED Start(c, FALSE)

(***************************************************************************)
(* C18: the calls are executed in the order in which they were submitted:   *)
(* the fn of a call starts only when every call submitted before it has     *)
(* started, whether the earlier calls returned a value or gave up.  (By C3  *)
(* a call that started has settled before the next one starts.)             *)
(***************************************************************************)
C18_FirstInFirstServed ==
    [][ \A c \in Callers :
          (calls[c].pc = "queued" /\ calls'[c].pc # "queued")
              => (hist.waiting # <<>> /\ Head(hist.waiting) = c) ]_vars

\* C18 witness: the defect processor's call runs after a read that gave up,
\* while a read submitted after it waits.
C18_Witness ==
    /\ hist.waiting = <<"poll1">>
    /\ calls["worker"].pc = "hold"
    /\ hist.lastReturn.op = "read" /\ hist.lastReturn.kind = "null"

(***************************************************************************)
(* C17: a connectPLC call issues at most MAX_RETRY_ATTEMPTS connectTCP      *)
(* calls; it returns on the first that succeeds (all the ones before it     *)
(* failed); it throws only after MAX_RETRY_ATTEMPTS of them failed; and it  *)
(* issues none when isConnected && client.isOpen held as it was entered.    *)
(***************************************************************************)
C17_ConnectRetryBudget ==
    /\ \A c \in Callers :
          /\ hist.conn[c].tries <= MAX_RETRY_ATTEMPTS
          /\ hist.conn[c].wasOpen => hist.conn[c].tries = 0
          /\ calls[c].pc = "connecting"
                => /\ ~hist.conn[c].wasOpen
                   /\ hist.conn[c].tries = hist.conn[c].fails + 1
    /\ hist.lastConn.outcome = "returned"
          => /\ hist.lastConn.tries = hist.lastConn.fails + 1
             /\ hist.lastConn.tries <= MAX_RETRY_ATTEMPTS
             /\ ~hist.lastConn.wasOpen
    /\ hist.lastConn.outcome = "threw"
          => /\ hist.lastConn.fails = MAX_RETRY_ATTEMPTS
             /\ hist.lastConn.tries = MAX_RETRY_ATTEMPTS
             /\ ~hist.lastConn.wasOpen
    /\ hist.lastConn.outcome = "skipped"
          => hist.lastConn.wasOpen /\ hist.lastConn.tries = 0

\* C17 witness: one connectPLC call has thrown after its third failure, and
\* the one that ended last returned on its third connectTCP.
C17_Witness ==
    /\ hist.lastConn = [outcome |-> "returned", tries |-> MAX_RETRY_ATTEMPTS,
                        fails |-> MAX_RETRY_ATTEMPTS - 1, wasOpen |-> FALSE]
    /\ \E c \in Callers : hist.connThrows[c] >= 1

(***************************************************************************)
(* C3: with getPlcData and sendDefectTrigger calls submitted concurrently, *)
(* at most one call is in progress on the channel, and it is the oldest    *)
(* unsettled one: a call starts only after every call submitted before it  *)
(* has finished.                                                           *)
(***************************************************************************)
C3_OneTransactionAtATime ==
    /\ \A c, d \in Callers : Running(c) /\ Running(d) => c = d
    /\ \A c \in Callers : Running(c) => Head(plcLock) = c

C3_Witness ==
    /\ calls["worker"].pc = "hold"
    /\ calls["poll1"].pc = "queued"
    /\ calls["poll2"].pc = "queued"

(***************************************************************************)
(* C5: a getPlcData or sendDefectTrigger call begins at most               *)
(* MAX_RETRY_ATTEMPTS attempts; when it returns a frame or true, the       *)
(* attempt that succeeded was the last one begun and every earlier one had *)
(* failed; it returns null or false only with all MAX_RETRY_ATTEMPTS       *)
(* attempts failed.                                                        *)
(***************************************************************************)
C5_RetryBudget ==
    /\ \A c \in Callers : hist.tried[c] <= MAX_RETRY_ATTEMPTS
    /\ hist.lastReturn.tried <= MAX_RETRY_ATTEMPTS
    /\ hist.lastReturn.kind \in {"frame", "true"}
          => hist.lastReturn.tried = hist.lastReturn.failed + 1
    /\ hist.lastReturn.kind \in {"null", "false"}
          => /\ hist.lastReturn.failed = MAX_RETRY_ATTEMPTS
             /\ hist.lastReturn.tried = MAX_RETRY_ATTEMPTS

C5_Witness ==
    /\ hist.lastReturn.op = "pulse"
    /\ hist.lastReturn.kind = "true"
    /\ hist.lastReturn.failed = MAX_RETRY_ATTEMPTS - 1

(***************************************************************************)
(* C10: whatever fails in its attempts (connections, reads), a getPlcData  *)
(* call settles by returning a frame or null, never by raising.            *)
(***************************************************************************)
C10_GetPlcDataNeverRaises ==
    hist.lastReturn.op = "read" => hist.lastReturn.kind \in {"frame", "null"}

C10_Witness ==
    /\ hist.lastReturn.op = "read"
    /\ hist.lastReturn.kind = "null"
    /\ hist.lastReturn.connThrows = 2
    /\ hist.lastReturn.failed = MAX_RETRY_ATTEMPTS

(***************************************************************************)
(* Spec: the poll interval, the defect intake, the defect processor and    *)
(* the two test endpoints that open and close a process, over the channel. *)
(* The database writer interval only drains plcDataQueue into the store    *)
(* (SpecPoller) and is left out here; the socket closes only as part of a  *)
(* failing hardware call (IoFail), its closing between calls is in         *)
(* SpecChannel (LinkDown).                                                 *)
(***************************************************************************)
\* setInterval(readLoop, 1500) fires: readLoop calls getPlcData.  The runs
\* are interchangeable, so the first free one is taken.
SysPollTick ==
    /\ hist.nEvents < MaxEvents
    /\ \E c \in PollCallers :
         /\ calls[c].pc = "idle"
         /\ c = "poll1" \/ calls["poll1"].pc # "idle"
         /\ calls' = [calls EXCEPT ![c] = Submitted(c)]
         /\ plcLock' = Append(plcLock, c)
    /\ hist' = [hist EXCEPT !.nEvents = @ + 1]
    /\ UNCHANGED <<isConnected, clientOpen, d111, queueVars, routeVars, store, writerRuns, defectTimers>>

\* The event put in front of the waiting ones.
EnqueueDefectAtFront(q, e) == <<e>> \o q

\* defectQueue.push(defectData).
EnqueueDefect(q, e) == Append(q, e)

\* POST /detect-result: handleDetectResult(defectData).
DefectArrives ==
    /\ hist.nEvents < MaxEvents
    /\ LET e == hist.nDefects + 1
       IN  /\ defectQueue' = IF GateAccepts THEN EnqueueDefect(defectQueue, e)
                                          ELSE defectQueue
           /\ hist' = [hist EXCEPT !.nEvents = @ + 1, !.nDefects = e,
                                   !.arrivedIdle = IF currentProcess = Null
                                                   THEN @ \cup {e} ELSE @]
    /\ UNCHANGED <<queueVars, latestPlcData, lastSavedData, lastProcessStart,
                   currentProcess, isProcessingDefect, worker, testEnd, chanVars, store, writerRuns, defectTimers>>

\* The defect processor's tick going ahead whenever the queue holds an event.
WorkerMayStartUnguarded == defectQueue # <<>>

\* "if (isProcessingDefect || defectQueue.length === 0) return" not taken.
WorkerMayStart == ~isProcessingDefect /\ defectQueue # <<>>

\* The defect processor interval, up to "await sendDefectTrigger()".
DefectTick ==
    /\ WorkerMayStart
    /\ defectQueue' = Tail(defectQueue)
    /\ IF WorkerGateAccepts
       THEN /\ isProcessingDefect' = TRUE
            /\ worker' = [pc |-> "pulse", event |-> Head(defectQueue), doc |-> Null]
            /\ calls' = [calls EXCEPT !["worker"] = Submitted("worker")]
            /\ plcLock' = Append(plcLock, "worker")
            /\ hist' = [hist EXCEPT !.inFlight = @ \cup {Head(defectQueue)},
                                    !.dequeuedIn = IF currentProcess = Null THEN 0
                                                  ELSE currentProcess.processId]
       ELSE /\ isProcessingDefect' = WorkerFinally("rejected")
            /\ hist' = [hist EXCEPT !.discarded = @ \cup {Head(defectQueue)}]
            /\ UNCHANGED <<worker, calls, plcLock>>
    /\ UNCHANGED <<queueVars, latestPlcData, lastSavedData, lastProcessStart,
                   currentProcess, testEnd, isConnected, clientOpen, d111, store, writerRuns, defectTimers>>

\* The defect processor's insertPlcData settles; finally: isProcessingDefect = false.
WorkerInsertDone ==
    /\ worker.pc = "insert"
    /\ \E out \in InsertOutcomes :
         /\ store' = IF out = "stored" THEN Append(store, worker.doc) ELSE store
         /\ isProcessingDefect' = WorkerFinally(out)
    /\ worker' = IdleWorker
    /\ hist' = [hist EXCEPT !.inFlight = @ \ {worker.event}, !.dequeuedIn = 0]
    /\ UNCHANGED <<queueVars, latestPlcData, lastSavedData, lastProcessStart,
                   currentProcess, defectQueue, testEnd, chanVars, writerRuns, defectTimers>>

\* POST /test/process-start.
TestProcessStart ==
    /\ hist.nEvents < MaxEvents
    /\ currentProcess = Null
    /\ currentProcess' =
          [processId |-> hist.nProcesses + 1, textileId |-> hist.nProcesses + 1,
           startProduction |-> IF latestPlcData = Null THEN 0
                               ELSE latestPlcData.totalProduction,
           startLength |-> IF latestPlcData = Null THEN 0 ELSE latestPlcData.fabricLength]
    /\ hist' = [hist EXCEPT !.nEvents = @ + 1, !.nProcesses = @ + 1]
    /\ UNCHANGED <<queueVars, latestPlcData, lastSavedData, lastProcessStart,
                   defectQueue, isProcessingDefect, worker, testEnd, chanVars, store, writerRuns, defectTimers>>

\* POST /test/process-end, up to "await insertPlcData(summary)".
TestProcessEndBegin ==
    /\ hist.nEvents < MaxEvents
    /\ currentProcess # Null
    /\ testEnd = Null
    /\ testEnd' =
          [type |-> "process_summary",
           processId |-> currentProcess.processId,
           textileId |-> currentProcess.textileId,
           production |-> (IF latestPlcData = Null THEN 0 ELSE latestPlcData.totalProduction)
                            - currentProcess.startProduction,
           fabricProcessed |-> (IF latestPlcData = Null THEN 0 ELSE latestPlcData.fabricLength)
                            - currentProcess.startLength]
    /\ hist' = [hist EXCEPT !.nEvents = @ + 1]
    /\ UNCHANGED <<queueVars, latestPlcData, lastSavedData, lastProcessStart, currentProcess,
                   defectQueue, isProcessingDefect, worker, chanVars, store, writerRuns, defectTimers>>

\* POST /test/process-end after the await: currentProcess = null, unless
\* insertPlcData threw.
TestProcessEndDone ==
    /\ testEnd # Null
    /\ \E out \in InsertOutcomes :
         /\ store' = IF out = "stored" THEN Append(store, testEnd) ELSE store
         /\ currentProcess' = IF out = "throw" THEN currentProcess ELSE Null
    /\ testEnd' = Null
    /\ UNCHANGED <<queueVars, latestPlcData, lastSavedData, lastProcessStart,
                   defectQueue, isProcessingDefect, worker, chanVars, writerRuns, defectTimers, hist>>

Next ==
    \/ SysPollTick
    \/ \E c \in Callers : Start(c, TRUE)
    \/ \E c \in Callers : ConnectOk(c, TRUE)
    \/ \E c \in Callers : ConnectFail(c, TRUE)
    \/ \E c \in Callers : ReadOk(c, TRUE)
    \/ \E c \in Callers : IoFail(c, TRUE)
    \/ \E c \in Callers : AssertOk(c, TRUE)
    \/ \E c \in Callers : HoldElapsed(c, TRUE)
    \/ \E c \in Callers : DeassertOk(c, TRUE)
    \/ DefectArrives
    \/ DefectTick
    \/ WorkerInsertDone
    \/ TestProcessStart
    \/ TestProcessEndBegin
    \/ TestProcessEndDone

Spec == ProgramInit /\ [][Next]_vars


(***************************************************************************)
(* Claims checked under Spec.                                              *)
(***************************************************************************)
\* The events for which a write to D111 was issued.
PulseBegun == hist.pulseOpen \cup hist.pulseDone \cup hist.pulseFailed

\* The defectIds of the defect documents in the store.
StoredDefects ==
    { store[i].defectId : i \in { j \in 1..Len(store) : store[j].type = "defect" } }

\* The events in the defect queue.
QueuedDefects == { defectQueue[i] : i \in 1..Len(defectQueue) }

\* C4: a defect event that arrived while no process was open is not in the
\* defect queue, is never the event the defect processor works on, has no
\* write to D111 issued for it and no defect document stored, in any later
\* state.
C4_IdleArrivalLeavesNoTrace ==
    \A e \in hist.arrivedIdle :
        /\ e \notin QueuedDefects
        /\ worker.event # e
        /\ e \notin PulseBegun
        /\ e \notin StoredDefects

\* C4 witness: event 1 arrived with no process open, and the later event 2
\* was pulsed and stored.
C4_Witness ==
    /\ 1 \in hist.arrivedIdle
    /\ 2 \in hist.pulseDone
    /\ 2 \in StoredDefects

\* C7: the defect queue grows only in a state where a process is open and
\* the most recent frame exists and has machineRunning = 1.
C7_QueuedOnlyWhenOpenAndRunning ==
    [][Len(defectQueue') > Len(defectQueue)
         => /\ currentProcess # Null
            /\ latestPlcData # Null
            /\ latestPlcData.machineRunning = 1]_vars

\* C8 as stated: when the assert of a later event has begun, the deassert of
\* every earlier event whose assert completed has completed too.
C8_EarlierDeassertCompleted ==
    \A e1 \in hist.pulseAsserted, e2 \in PulseBegun :
        e1 < e2 => e1 \in hist.pulseDone

\* C8 (amended): the pulses of distinct events never overlap: when a write to
\* D111 has been issued for a later event, the sendDefectTrigger call of
\* every earlier pulsed event has returned, either after its deassert
\* completed or, with hardware calls failing, after it gave up; at most one
\* event has a pulse in progress, and only for that event are calls on the wire.
C8_PulsesDoNotOverlap ==
    /\ \A e1 \in PulseBegun, e2 \in PulseBegun :
          e1 < e2 => e1 \in hist.pulseDone \cup hist.pulseFailed
    /\ Cardinality(hist.pulseOpen) <= 1
    /\ \A e \in hist.pulseOpen : worker.event = e /\ worker.pc = "pulse"
    /\ calls["worker"].pc \in {"assert", "hold", "deassert"}
          => worker.event \in hist.pulseOpen

\* C8 witness: the deassert of event 1 completed and the assert of event 2
\* is on the wire.
C8_Witness ==
    /\ 1 \in hist.pulseDone
    /\ 2 \in hist.pulseOpen
    /\ calls["worker"].pc = "assert"

\* C13: at most one event is shifted from defectQueue and not yet finished, and
\* isProcessingDefect is set for as long as one is: from the shift, through
\* the pulse and the insert, to the end of the run.
C13_OneWorkerRunAtATime ==
    /\ Cardinality(hist.inFlight) <= 1
    /\ hist.inFlight # {} => isProcessingDefect /\ hist.inFlight = {worker.event}
    /\ hist.inFlight = {} => worker = IdleWorker

\* C13 witness: event 1 is being pulsed while event 2 waits in the queue.
C13_Witness ==
    /\ hist.inFlight = {1}
    /\ defectQueue = <<2>>
    /\ worker.pc = "pulse"
    /\ calls["worker"].pc = "hold"

\* C15: an entry of dbWriteQueue does not stay there forever while the
\* database writer keeps ticking; for that, whenever dbWriteQueue holds an
\* entry, some step of the program (the writer's tick among them) must be
\* able to dequeue its oldest entry.
C15_QueuedEntryCanBeDequeued ==
    dbWriteQueue # <<>>
        => ENABLED ((NextPoller \/ Next) /\ dbWriteQueue' = Tail(dbWriteQueue))

\* A step in which the read of caller c returns a frame runs readLoop to its
\* end with it: latestPlcData is the frame, the tracker is fed, and the frame
\* is queued if it differs from the last saved one.
PollRunsToEnd ==
    /\ latestPlcData' # Null
    /\ lastProcessStart' = latestPlcData'.processStart
    /\ HasImportantChange(latestPlcData')
          => /\ lastSavedData' = latestPlcData'
             /\ plcDataQueue' # <<>>
             /\ Last(plcDataQueue').data.frame = latestPlcData'

\* C16: a poll tick never waits for a store write: whenever a read is on the
\* wire while a store write is pending (and may stay pending for ever, or
\* fail), the step in which the read returns a frame can be taken, and every
\* step in which a read returns a frame runs readLoop to its end.
C16_PollNeverWaitsForStore ==
    /\ [](\A c \in PollCallers :
            (calls[c].pc = "io" /\ StoreBusy) => ENABLED ReadOk(c, TRUE))
    /\ [][\A c \in PollCallers : ReadOk(c, TRUE) => PollRunsToEnd]_vars

\* C16 witness: a read is on the wire and a process is open while the defect
\* processor's insert and the insert of /test/process-end are both pending.
C16_Witness ==
    /\ calls["poll1"].pc = "io"
    /\ worker.pc = "insert"
    /\ testEnd # Null
    /\ latestPlcData # Null

\* A step in which a poll tick's getPlcData settles and readLoop resumes.
PollTickStep ==
    \E c \in PollCallers : calls[c].pc = "io" /\ calls'[c].pc = "idle"

\* C20: only a poll tick changes the process tracker's state: every step that
\* changes currentProcess or lastProcessStart is the step of a poll tick; the
\* defect intake, the defect processor and the other routes leave both alone.
C20_OnlyPollTickChangesTracker ==
    [][(currentProcess' # currentProcess \/ lastProcessStart' # lastProcessStart)
          => PollTickStep]_vars

\* The step in which the defect processor builds its document, after
\* "await sendDefectTrigger()" returned.
RecordBuilt == worker.pc = "pulse" /\ worker'.pc = "insert"

\* C21: a defect record carries the processId and textileId of the process
\* that is open when the defect processor builds it, after the pulse; a record
\* is built only while a process is open.
C21_RecordBoundToProcessAtBuild ==
    [][RecordBuilt =>
          /\ currentProcess # Null
          /\ worker'.doc.processId = currentProcess.processId
          /\ worker'.doc.textileId = currentProcess.textileId]_vars

\* C21 witness: the record being inserted names process 2, while the event
\* was shifted from the queue when process 1 was open.
C21_Witness ==
    /\ worker.pc = "insert"
    /\ hist.dequeuedIn = 1
    /\ worker.doc.processId = 2
    /\ currentProcess # Null /\ currentProcess.processId = 2

\* C22: the lengthAtDetection of a defect record is the fabricLength of the
\* latest frame when the defect processor builds the record, whatever the
\* value, 0 included.
C22_LengthIsLatestFabricLength ==
    [][(RecordBuilt /\ latestPlcData # Null)
          => worker'.doc.lengthAtDetection = latestPlcData.fabricLength]_vars

\* The defect processor shifts an event from defectQueue.
EventDequeued == defectQueue # <<>> /\ defectQueue' = Tail(defectQueue)

\* C24: the defect processor checks the gate again when it dequeues an event:
\* with no process open, or with a latest frame whose machineRunning is not 1,
\* the event is dropped in that step: no call is submitted to the channel,
\* D111 and the store are left alone, and the processor is idle again; an
\* event dropped this way is never pulsed and never stored.
C24_WorkerRechecksGate ==
    /\ [][(EventDequeued /\ (currentProcess = Null
                               \/ (latestPlcData # Null /\ latestPlcData.machineRunning # 1)))
            => /\ calls' = calls /\ plcLock' = plcLock
               /\ d111' = d111 /\ store' = store
               /\ worker' = IdleWorker /\ isProcessingDefect' = FALSE
               /\ Head(defectQueue) \in hist'.discarded]_vars
    /\ [](\A e \in hist.discarded :
             /\ e \notin hist.inFlight \cup hist.pulseOpen \cup hist.pulseDone \cup hist.pulseFailed
             /\ e \notin StoredDefects)

\* C24 witness: event 1 was queued while a process was open and the machine
\* ran, and was dropped by the defect processor after the process had closed.
C24_Witness ==
    /\ 1 \in hist.discarded
    /\ 1 \notin hist.arrivedIdle
    /\ currentProcess = Null
    /\ worker = IdleWorker /\ ~isProcessingDefect
    /\ d111 = 0 /\ store = <<>>

\* C26: a processed event causes exactly one pulse: once its
\* writeRegister(111, 1) has completed no further writeRegister(111, 1) is
\* issued for it, and an event whose record is built had D111 written to 1 and
\* then to 0, also when a write failed and the attempt was repeated.
C26_OnePulsePerEvent ==
    /\ calls["worker"].pc = "assert" => worker.event \notin hist.pulseAsserted
    /\ worker.pc = "insert" => worker.event \in hist.pulseAsserted

\* C27: for a processed event the writeRegister(111, 1), the
\* writeRegister(111, 0) and the building of the record happen in this order:
\* a record is built only for an event whose writeRegister(111, 0) has
\* completed, and the defect processor pushes the record to dbWriteQueue
\* instead of writing it to the store itself.
C27_PulseThenRecordToQueue ==
    /\ [](worker.pc = "insert" => worker.event \in hist.pulseDone)
    /\ [][RecordBuilt => /\ dbWriteQueue' # <<>>
                          /\ Last(dbWriteQueue').data = worker'.doc]_vars
    /\ [][worker.pc = "insert" => store' = store]_vars

(***************************************************************************)
(* SpecFunnel: the defect funnel on its own: events arrive, the defect      *)
(* processor pulses and stores them over a channel it has to itself, and    *)
(* the test endpoints open and close the process.  Every hardware call of   *)
(* the pulse returns (with a result or an error), each delay elapses, the   *)
(* processor's interval keeps firing and its insertPlcData call settles.    *)
(***************************************************************************)
\* A step of the sendDefectTrigger call.
PulseStep ==
    \/ Start("worker", TRUE)
    \/ ConnectOk("worker", TRUE)
    \/ ConnectFail("worker", TRUE)
    \/ IoFail("worker", TRUE)
    \/ AssertOk("worker", TRUE)
    \/ HoldElapsed("worker", TRUE)
    \/ DeassertOk("worker", TRUE)

NextFunnel ==
    \/ DefectArrives
    \/ DefectTick
    \/ PulseStep
    \/ WorkerInsertDone
    \/ TestProcessStart
    \/ TestProcessEndBegin
    \/ TestProcessEndDone

SpecFunnel ==
    /\ ProgramInit
    /\ [][NextFunnel]_vars
    /\ WF_vars(DefectTick)
    /\ WF_vars(PulseStep)
    /\ WF_vars(WorkerInsertDone)

\* C28: every event that entered defectQueue is eventually shifted from it by
\* the defect processor, given that every channel operation and every store
\* write returns; and the events are shifted in the order they arrived: the
\* one shifted is the earliest arrival among those waiting, and it goes to the
\* defect processor's run or is dropped by its check.
C28_QueuedEventsDequeuedInOrder ==
    /\ \A e \in 1..MaxEvents : (e \in QueuedDefects) ~> (e \notin QueuedDefects)
    /\ [][EventDequeued =>
             /\ \A x \in QueuedDefects : Head(defectQueue) <= x
             /\ Head(defectQueue) \in hist'.inFlight \cup hist'.discarded]_vars

\* C28 witness: three events were queued; the first has been processed, the
\* second is with the defect processor and the third still waits.
C28_Witness ==
    /\ hist.nDefects = 3
    /\ QueuedDefects = {3}
    /\ 2 \in hist.inFlight
    /\ 1 \in StoredDefects

(***************************************************************************)
(* C33: every run of the defect processor ends, and when it has ended (by   *)
(* the gate's return, after the insert, or through the catch block after a  *)
(* failed pulse, a failed insert or a null currentProcess)                  *)
(* isProcessingDefect is false, so that the next tick can take the next     *)
(* queued event.                                                            *)
(***************************************************************************)
WorkerRunEnds ==
    \/ hist'.discarded # hist.discarded
    \/ worker.pc # "idle" /\ worker'.pc = "idle"

C33_WorkerNeverStuck ==
    /\ [][WorkerRunEnds => ~isProcessingDefect']_vars
    /\ [](worker.pc = "idle" /\ defectQueue # <<>> => ENABLED DefectTick)
    /\ (isProcessingDefect ~> ~isProcessingDefect)

\* Event 1 passed the gate and its run ended without a stored document;
\* the processor is working on event 2.
C33_Witness ==
    /\ worker.pc = "pulse" /\ worker.event = 2
    /\ 1 \notin hist.discarded \cup hist.arrivedIdle \cup StoredDefects

(***************************************************************************)
(* C34: an open process is only ever closed, and closed together with its   *)
(* one summary: when currentProcess changes from a process it becomes null  *)
(* (it is not replaced by another process) and the summary of that process  *)
(* is pushed to dbWriteQueue or stored in that step; and a summary is       *)
(* stored by POST /test/process-end only for the process that is still open.*)
(***************************************************************************)
SummaryEmittedFor(p) ==
    \/ /\ dbWriteQueue' # dbWriteQueue
       /\ Last(dbWriteQueue').type = "process_summary"
       /\ Last(dbWriteQueue').data.processId = p.processId
    \/ /\ testEnd # Null
       /\ testEnd.processId = p.processId
       /\ store' = Append(store, testEnd)

C34_ProcessClosedByOneSummary ==
    /\ [][(currentProcess # Null /\ currentProcess' # currentProcess)
            => currentProcess' = Null /\ SummaryEmittedFor(currentProcess)]_vars
    /\ [][(testEnd # Null /\ store' = Append(store, testEnd))
            => currentProcess # Null /\ currentProcess.processId = testEnd.processId]_vars

(***************************************************************************)
(* C35: an event that passed the defect processor's check yields its        *)
(* record: when the sendDefectTrigger call of the run returns, with true or *)
(* false, the processor builds the record of the event it dequeued,         *)
(* whatever poll ticks and process-closing requests ran during the pulse.   *)
(***************************************************************************)
C35_AcceptedEventYieldsRecord ==
    [][(worker.pc = "pulse" /\ worker'.pc # "pulse")
          => /\ worker'.pc = "insert"
             /\ worker'.doc.type = "defect"
             /\ worker'.doc.defectId = worker.event]_vars

(***************************************************************************)
(* C36: D111 is written to 1 for an event only while a process is open:     *)
(* when the writeRegister(111, 1) of the defect processor's pulse is        *)
(* issued, and when it completes, currentProcess is not null.               *)
(***************************************************************************)
C36_ProcessOpenAtAssert ==
    /\ [][(calls["worker"].pc # "assert" /\ calls'["worker"].pc = "assert")
            => currentProcess # Null]_vars
    /\ [][(calls["worker"].pc = "assert" /\ calls'["worker"].pc = "hold")
            => currentProcess # Null]_vars

(***************************************************************************)
(* C37: the poller's reads settle, and their frames reach                   *)
(* handleProcessLogic, in the order in which the reads were submitted: the  *)
(* read that settles is the oldest unsettled read of the interval, also     *)
(* when a later tick submitted another read while it was pending.           *)
(***************************************************************************)
\* The unsettled poller reads, oldest first.
PendingReads == SelectSeq(plcLock, LAMBDA x : x \in PollCallers)

C37_FramesProcessedInSubmissionOrder ==
    [][\A c \in PollCallers :
          (calls[c].pc # "idle" /\ calls'[c].pc = "idle") => Head(PendingReads) = c]_vars

\* Two ticks fired, the second while the first read was pending; the first
\* read's frame has been processed and the second read still waits.
C37_Witness ==
    /\ hist.nEvents = 2
    /\ calls["poll1"].pc = "idle"
    /\ calls["poll2"].pc = "queued"
    /\ latestPlcData # Null

(***************************************************************************)
(* C38: at most one read of the poller is queued or running on the channel  *)
(* at any time.                                                             *)
(***************************************************************************)
C38_OnePollerReadPending == Len(PendingReads) <= 1

(***************************************************************************)
(* SpecEvent: the event-driven variant of the defect processor:             *)
(* handleDetectResult calls processDefectQueue() when no run is active, and *)
(* a run that ends with events left in the queue schedules the next one     *)
(* with setTimeout(processDefectQueue, 100).  The processor has the channel *)
(* to itself; the test endpoints open and close the process.                *)
(***************************************************************************)
\* A processor whose finally block does not schedule the next run.
TimersAfterRunNone(q, timers) == timers

\* finally: if (defectQueue.length > 0) setTimeout(processDefectQueue, 100).
TimersAfterRun(q, timers) == IF Len(q) > 0 THEN timers + 1 ELSE timers

\* processDefectQueue() up to its first await or its return, entered with
\* defectQueue = q, `timers` callbacks pending and the history h.
ProcessDefectQueue(q, timers, h) ==
    IF isProcessingDefect \/ q = <<>>
    THEN /\ defectQueue' = q
         /\ defectTimers' = timers
         /\ hist' = h
         /\ UNCHANGED <<isProcessingDefect, worker, calls, plcLock>>
    ELSE /\ defectQueue' = Tail(q)
         /\ IF WorkerGateAccepts
            THEN /\ isProcessingDefect' = TRUE
                 /\ worker' = [pc |-> "pulse", event |-> Head(q), doc |-> Null]
                 /\ calls' = [calls EXCEPT !["worker"] = Submitted("worker")]
                 /\ plcLock' = Append(plcLock, "worker")
                 /\ defectTimers' = timers
                 /\ hist' = [h EXCEPT !.inFlight = @ \cup {Head(q)},
                                      !.dequeuedIn = IF currentProcess = Null THEN 0
                                                    ELSE currentProcess.processId]
            ELSE /\ isProcessingDefect' = FALSE
                 /\ defectTimers' = TimersAfterRun(Tail(q), timers)
                 /\ hist' = [h EXCEPT !.discarded = @ \cup {Head(q)}]
                 /\ UNCHANGED <<worker, calls, plcLock>>

\* POST /detect-result: handleDetectResult(defectData).
EvDefectArrives ==
    /\ hist.nEvents < MaxEvents
    /\ LET e == hist.nDefects + 1
           h == [hist EXCEPT !.nEvents = @ + 1, !.nDefects = e,
                             !.arrivedIdle = IF currentProcess = Null
                                             THEN @ \cup {e} ELSE @]
       IN  IF ~GateAccepts
           THEN /\ hist' = h
                /\ UNCHANGED <<defectQueue, isProcessingDefect, worker, calls, plcLock,
                               defectTimers>>
           ELSE IF isProcessingDefect
           THEN /\ defectQueue' = Append(defectQueue, e)
                /\ hist' = h
                /\ UNCHANGED <<isProcessingDefect, worker, calls, plcLock, defectTimers>>
           ELSE ProcessDefectQueue(Append(defectQueue, e), defectTimers, h)
    /\ UNCHANGED <<queueVars, latestPlcData, lastSavedData, lastProcessStart,
                   currentProcess, testEnd, isConnected, clientOpen, d111, store, writerRuns>>

\* A callback scheduled by setTimeout(processDefectQueue, 100) runs.
EvTimerFires ==
    /\ defectTimers > 0
    /\ ProcessDefectQueue(defectQueue, defectTimers - 1, hist)
    /\ UNCHANGED <<queueVars, latestPlcData, lastSavedData, lastProcessStart,
                   currentProcess, testEnd, isConnected, clientOpen, d111, store, writerRuns>>

\* What the next step of the processor's sendDefectTrigger call can be.
PulseOutcomes ==
    LET call == calls["worker"]
    IN  IF call.pc = "queued"
        THEN IF LockGrants("worker") THEN {StartOutcome(call)} ELSE {}
        ELSE IF call.pc = "connecting"
        THEN {ConnectOkOutcome(call), ConnectFailOutcome(call)}
        ELSE IF call.pc = "assert"
        THEN {AssertOkOutcome(call)}
                \cup {IoFailOutcome(call, call.pc, open) : open \in {clientOpen, FALSE}}
        ELSE IF call.pc = "hold"
        THEN {Outcome(isConnected, clientOpen, d111, [call EXCEPT !.pc = "deassert"], NoResult)}
        ELSE IF call.pc = "deassert"
        THEN {DeassertOkOutcome(call)}
                \cup {IoFailOutcome(call, call.pc, open) : open \in {clientOpen, FALSE}}
        ELSE {}

\* processDefectQueue resumes after "await sendDefectTrigger()": it builds the
\* document (a TypeError with currentProcess null, caught) and awaits
\* insertPlcData; after the catch the finally block runs.
EvWorkerContinues(o) ==
    /\ IF o.result.kind = "raised" \/ currentProcess = Null
       THEN /\ isProcessingDefect' = FALSE
            /\ worker' = IdleWorker
            /\ defectTimers' = TimersAfterRun(defectQueue, defectTimers)
            /\ hist' = [HistAfterPulseStep(o) EXCEPT !.inFlight = @ \ {worker.event},
                                                     !.dequeuedIn = 0]
       ELSE /\ isProcessingDefect' = isProcessingDefect
            /\ worker' = [worker EXCEPT !.pc = "insert", !.doc = DefectRecord(worker.event)]
            /\ defectTimers' = defectTimers
            /\ hist' = HistAfterPulseStep(o)
    /\ UNCHANGED <<queueVars, latestPlcData, lastSavedData, lastProcessStart,
                   currentProcess, defectQueue, testEnd, store, writerRuns>>

\* A step of the processor's sendDefectTrigger call.
EvPulseStep ==
    \E o \in PulseOutcomes :
        /\ ChanApply("worker", o)
        /\ IF o.result.kind = "none"
           THEN /\ hist' = HistAfterPulseStep(o)
                /\ UNCHANGED <<queueVars, routeVars, store, writerRuns, defectTimers>>
           ELSE EvWorkerContinues(o)

\* The processor's insertPlcData settles; the finally block runs.
EvWorkerInsertDone ==
    /\ worker.pc = "insert"
    /\ \E out \in InsertOutcomes :
         store' = IF out = "stored" THEN Append(store, worker.doc) ELSE store
    /\ isProcessingDefect' = FALSE
    /\ worker' = IdleWorker
    /\ defectTimers' = TimersAfterRun(defectQueue, defectTimers)
    /\ hist' = [hist EXCEPT !.inFlight = @ \ {worker.event}, !.dequeuedIn = 0]
    /\ UNCHANGED <<queueVars, latestPlcData, lastSavedData, lastProcessStart,
                   currentProcess, defectQueue, testEnd, chanVars, writerRuns>>

NextEvent ==
    \/ EvDefectArrives
    \/ EvTimerFires
    \/ EvPulseStep
    \/ EvWorkerInsertDone
    \/ TestProcessStart
    \/ TestProcessEndBegin
    \/ TestProcessEndDone

SpecEvent == ProgramInit /\ [][NextEvent]_vars

(***************************************************************************)
(* C39: in the event-driven variant no accepted event is stranded: whenever *)
(* defectQueue holds an event, a run of processDefectQueue is active or a   *)
(* setTimeout(processDefectQueue, 100) callback is pending.                 *)
(***************************************************************************)
C39_NoStrandedEvent ==
    defectQueue # <<>> => isProcessingDefect \/ defectTimers > 0

\* Two events arrived during the run for event 1; the run has ended, the
\* processor is idle, both events wait and one callback is scheduled.
C39_Witness ==
    /\ defectQueue = <<2, 3>>
    /\ ~isProcessingDefect
    /\ defectTimers = 1
    /\ 1 \in StoredDefects

=============================================================================
